---- MODULE Spec2Model ----
(***************************************************************************)
(* Job-board backend: the application-submission workflow of               *)
(* routes/applications.js over the User and Job collections.               *)
(*                                                                         *)
(* Strings are sequences of one-character strings, so that the string      *)
(* conversions of the code (ObjectId casting, toString, the placeholder    *)
(* email) are computed and not assumed.  ObjectIds are sequences of hex    *)
(* digit values; the model shortens them from 24 hex digits to 2.          *)
(* Requests carry no cover letter, resume URL or notes (the handler then   *)
(* stores empty strings), so those fields are left out of the documents.   *)
(* Every `await` of a handler is a point where other requests interleave:  *)
(* each action below runs one store operation and the synchronous code     *)
(* that follows it up to the next `await`.                                 *)
(***************************************************************************)
EXTENDS Integers, Sequences, FiniteSets, TLC

(* ------------------------------ bounds --------------------------------- *)
\* total number of requests the environment sends
MaxRequests == 2
\* the wall clock (new Date()) takes the values 0..MaxClock
MaxClock == 1
\* applications a listed user holds, and their applied-at times
MaxApps == 3
MaxTime == 2

\* the requests that can be in flight at the same time
Procs == {1, 2}

(* --------------------------- program constants ------------------------- *)
DefaultPage == 1
DefaultLimit == 10
\* the pagination example: 15 applications
ExampleApps == 15

(* ------------------------------ strings -------------------------------- *)
HexLower == <<"0","1","2","3","4","5","6","7","8","9","a","b","c","d","e","f">>
HexUpper == <<"0","1","2","3","4","5","6","7","8","9","A","B","C","D","E","F">>
UpperLetters == <<"A","B","C","D","E","F","U","S","R">>
LowerLetters == <<"a","b","c","d","e","f","u","s","r">>

IsHexChar(c) == \E i \in 1..16 : HexLower[i] = c \/ HexUpper[i] = c
HexVal(c) == CHOOSE v \in 0..15 : HexLower[v + 1] = c \/ HexUpper[v + 1] = c

\* bson ObjectId.isValid on a string: the right length, hex digits of either case
IsValidObjectIdString(s) == Len(s) = 2 /\ \A i \in 1..Len(s) : IsHexChar(s[i])
\* mongoose cast of a string to an ObjectId (the bytes the hex digits denote)
CastObjectId(s) == [i \in 1..Len(s) |-> HexVal(s[i])]
\* ObjectId.prototype.toString: lowercase hex
ObjectIdToString(oid) == [i \in 1..Len(oid) |-> HexLower[oid[i] + 1]]

ToLowerChar(c) ==
    IF \E i \in 1..Len(UpperLetters) : UpperLetters[i] = c
    THEN LowerLetters[CHOOSE i \in 1..Len(UpperLetters) : UpperLetters[i] = c]
    ELSE c
\* String.prototype.toLowerCase (schema option lowercase: true)
ToLowerCase(s) == [i \in 1..Len(s) |-> ToLowerChar(s[i])]

\* String.prototype.trim (schema option trim: true)
RECURSIVE TrimLeft(_)
TrimLeft(s) == IF s # <<>> /\ Head(s) = " " THEN TrimLeft(Tail(s)) ELSE s
RECURSIVE TrimRight(_)
TrimRight(s) ==
    IF s # <<>> /\ s[Len(s)] = " " THEN TrimRight(SubSeq(s, 1, Len(s) - 1)) ELSE s
Trim(s) == TrimRight(TrimLeft(s))

\* String.prototype.replace(pattern, replacement) with a string pattern:
\* only the first occurrence is replaced
ReplaceFirst(s, pat, rep) ==
    LET hits == {i \in 1..(Len(s) - Len(pat) + 1) : SubSeq(s, i, i + Len(pat) - 1) = pat}
    IN  IF hits = {} THEN s
        ELSE LET i == CHOOSE k \in hits : \A m \in hits : k <= m
             IN  SubSeq(s, 1, i - 1) \o rep \o SubSeq(s, i + Len(pat), Len(s))

UserPrefix == <<"u","s","e","r","_">>
MailDomain == <<"@","j","o","b","h","u","b",".","a","p","p">>

\* the email setters of the schema
NormalizeEmail(s) == ToLowerCase(Trim(s))

\* the placeholder email of an auto-created user, as stored
PlaceholderEmail(clerkUserId) ==
    NormalizeEmail(ReplaceFirst(clerkUserId, UserPrefix, <<>>) \o MailDomain)

(* ------------------------------- inputs -------------------------------- *)
Empty == <<>>
\* external identities a request can carry
IdUserA == UserPrefix \o <<"a">>
IdUserUpperA == UserPrefix \o <<"A">>
IdUserB == UserPrefix \o <<"b">>
Identities == {IdUserA, IdUserUpperA, IdUserB}

\* job references a request can carry: two jobs exist (a1, b1), a1 also
\* spelled with an uppercase digit, d1 names no job, zz is no ObjectId
RefJob1 == <<"a","1">>
RefJob1Upper == <<"A","1">>
RefJob2 == <<"b","1">>
RefNoJob == <<"d","1">>
RefMalformed == <<"z","z">>
JobRefs == {RefJob1, RefJob1Upper, RefJob2, RefNoJob, RefMalformed}

Job1 == CastObjectId(RefJob1)
Job2 == CastObjectId(RefJob2)
JobIds == {Job1, Job2}

StatusEnum == {"applied", "under_review", "interview", "rejected", "accepted"}
StatusInputs == {"applied", "interview", "bogus"}
\* req.query.page, req.query.limit: <<>> when the parameter is not given,
\* <<s>> when it is given as the string s
Absent == <<>>
PageInputs == {Absent, << <<"1">> >>, << <<"2">> >>, << <<"0","3">> >>}
LimitInputs == {Absent, << <<"1">> >>, << <<"2">> >>, << <<"1","0">> >>}

\* ObjectIds the driver generates (new ObjectId()): the n-th one
NewObjectId(n) == <<12, n>>
\* ids of the documents that exist before the first request
SeedObjectId(n) == <<14, n>>

\* application identifiers a status update can carry
AppIdInputs ==
    {ObjectIdToString(SeedObjectId(2)), ObjectIdToString(NewObjectId(0)),
     ObjectIdToString(NewObjectId(1)), RefMalformed}

(* ------------------------------- state --------------------------------- *)
(* ------------------------------- state --------------------------------- *)
VARIABLES
    users,        \* the User collection, in insertion order
    jobs,         \* the Job collection: job id -> document
    req,          \* per request slot: the handler's position and locals
    now,          \* the wall clock
    nextOid,      \* how many ObjectIds the driver has generated
    started,      \* how many requests have been sent
    faults,       \* the kinds of store operation (read, write) that have met a store fault
    succeeded,    \* the (identity, job) pairs a submit has answered 201 for
    contacts      \* the Contact collection, in insertion order

vars == <<users, jobs, req, now, nextOid, started, faults, succeeded, contacts>>

\* the number of Application subdocuments in apps that reference job j
RECURSIVE CountIn(_, _)
CountIn(apps, j) ==
    IF apps = <<>> THEN 0
    ELSE (IF Head(apps).jobId = j THEN 1 ELSE 0) + CountIn(Tail(apps), j)
\* the same, across all users
RECURSIVE Applications(_, _)
Applications(us, j) ==
    IF us = <<>> THEN 0
    ELSE CountIn(Head(us).applications, j) + Applications(Tail(us), j)

\* a user created by the sign-in sync (findOrCreateFromClerk): the email is
\* the one the identity provider knows
SeedUser(n, clerkUserId, email, applications) ==
    [_id |-> SeedObjectId(n), clerkUserId |-> clerkUserId,
     email |-> NormalizeEmail(email), firstName |-> "Clerk", lastName |-> "User",
     userType |-> "job_seeker", applications |-> applications,
     __v |-> Len(applications)]

\* the stores a run starts from: the empty one, and one where user_a has
\* applied to the second job and user_b has signed in but never applied
SeedApplication ==
    [_id |-> SeedObjectId(2), jobId |-> Job2, appliedAt |-> 0, status |-> "applied"]
SeedA == SeedUser(0, IdUserA, <<"A","@","x">>, <<SeedApplication>>)
SeedB == SeedUser(1, IdUserB, <<"b","@","x">>, <<>>)
InitialUsers == {<<>>, <<SeedA, SeedB>>}

NoResp ==
    [code |-> 0, message |-> "", data |-> <<>>, pagination |-> <<>>, error |-> "",
     step |-> ""]
NoSnap == [users |-> <<>>, jobs |-> <<>>, succeeded |-> {}, contacts |-> <<>>]
NoPeer == [kind |-> "none", clerkUserId |-> Empty, jobId |-> Empty, code |-> 0, error |-> ""]
\* a free slot.  user and contact are the handler's copy of a User or
\* Contact document (<<>> for none), form the body of a contact
\* submission, tally what a handler has read so far; base, burst and peer are bookkeeping.  A burst is a maximal
\* group of requests each of which overlaps another one of the group: base
\* is the store when the burst began, burst the number of requests in it so
\* far (1: the request has run alone), peer the latest request overlapped,
\* overlaps the kinds of the requests overlapped
Idle ==
    [pc |-> "idle", kind |-> "none", clerkUserId |-> Empty, jobId |-> Empty,
     applicationId |-> Empty, status |-> "", page |-> Absent, limit |-> Absent,
     user |-> <<>>, dirty |-> FALSE, resp |-> NoResp,
     base |-> NoSnap, peer |-> NoPeer, burst |-> 0,
     form |-> <<>>, contactId |-> Empty, message |-> Empty, repliedBy |-> Empty,
     contact |-> <<>>, tally |-> <<>>, overlaps |-> {}]

InFlight(p) == req[p].pc \notin {"idle", "done"}
AnyDone == \E q \in Procs : req[q].pc = "done"
\* the handler in slot p is at the await named label; a response is read
\* as soon as it is sent, before any handler goes on
At(p, label) == req[p].pc = label /\ ~AnyDone

Init ==
    /\ users \in InitialUsers
    /\ jobs = [j \in JobIds |-> [_id |-> j, applicationCount |-> Applications(users, j)]]
    /\ req = [p \in Procs |-> Idle]
    /\ now = 0
    /\ nextOid = 0
    /\ started = 0
    /\ faults = {}
    /\ succeeded = {}
    /\ contacts = <<>>

(* ------------------------- store and documents ------------------------- *)
\* positions of the documents matching a query
UserIndexByClerkId(us, clerkUserId) == {i \in 1..Len(us) : us[i].clerkUserId = clerkUserId}
UserIndexById(us, id) == {i \in 1..Len(us) : us[i]._id = id}
\* Model.findOne: the first match in collection order, <<>> for null
FindOne(us, hits) ==
    IF hits = {} THEN <<>> ELSE <<us[CHOOSE i \in hits : \A k \in hits : i <= k]>>

\* the unique indexes on clerkUserId and on email reject the insert
DuplicateKey(us, doc) ==
    \E i \in 1..Len(us) : us[i].clerkUserId = doc.clerkUserId \/ us[i].email = doc.email

\* new User({...}) of the auto-provisioning branch
NewUser(oid, clerkUserId) ==
    [_id |-> oid, clerkUserId |-> clerkUserId, email |-> PlaceholderEmail(clerkUserId),
     firstName |-> "Job", lastName |-> "Seeker", userType |-> "job_seeker",
     applications |-> <<>>, __v |-> 0]

\* the subdocument user.applications.push({...}) builds; jobId is cast
NewApplication(oid, jobId, t) ==
    [_id |-> oid, jobId |-> CastObjectId(jobId), appliedAt |-> t, status |-> "applied"]

\* user.applications.find(app => app.jobId && app.jobId.toString() === jobId)
ExistingApplication(user, jobId) ==
    {i \in 1..Len(user.applications) :
        ObjectIdToString(user.applications[i].jobId) = jobId}

\* a save that stores nothing
PushApplicationLost(us, id, app) == us

\* save() of a pushed subdocument: $push of the new element and $inc of __v
\* on the stored document with this _id (no condition on __v)
PushApplication(us, id, app) ==
    [i \in 1..Len(us) |->
        IF us[i]._id = id
        THEN [us[i] EXCEPT !.applications = Append(@, app), !.__v = @ + 1]
        ELSE us[i]]

\* an update that sets the counter instead of incrementing it
IncApplicationCountSet(js, jobId) ==
    LET j == CastObjectId(jobId)
    IN  IF j \in DOMAIN js THEN [js EXCEPT ![j].applicationCount = 1] ELSE js

\* an update that counts the application twice
IncApplicationCountTwice(js, jobId) ==
    LET j == CastObjectId(jobId)
    IN  IF j \in DOMAIN js THEN [js EXCEPT ![j].applicationCount = @ + 2] ELSE js

\* Job.findByIdAndUpdate(jobId, {$inc: {applicationCount: 1}})
IncApplicationCount(js, jobId) ==
    LET j == CastObjectId(jobId)
    IN  IF j \in DOMAIN js
        THEN [js EXCEPT ![j].applicationCount = @ + 1]
        ELSE js

\* populate('applications.jobId') on one subdocument: the Job document
\* replaces the reference (null when there is no such Job)
NullJob == [_id |-> <<>>, applicationCount |-> 0]
Populate(app, js) == [app EXCEPT !.jobId = IF @ \in DOMAIN js THEN js[@] ELSE NullJob]

Last(s) == s[Len(s)]

\* a query-string value is a string of decimal digits
DecDigits == <<"0","1","2","3","4","5","6","7","8","9">>
IsDigit(c) == \E i \in 1..10 : DecDigits[i] = c
DigitVal(c) == CHOOSE v \in 0..9 : DecDigits[v + 1] = c
\* ToNumber of a digit string (the coercion of page - 1, * limit, / limit)
RECURSIVE ToNumber(_)
ToNumber(s) ==
    IF s = <<>> THEN 0 ELSE 10 * ToNumber(SubSeq(s, 1, Len(s) - 1)) + DigitVal(s[Len(s)])
\* parseInt(s): the value of the longest prefix of digits
DigitPrefix(s) ==
    SubSeq(s, 1, Cardinality({n \in 1..Len(s) : \A i \in 1..n : IsDigit(s[i])}))
ParseInt(s) == ToNumber(DigitPrefix(s))

(* ----------------------------- responses ------------------------------- *)
\* a JSON body: data is the sequence of documents it carries (one document
\* for the endpoints that answer with an object), pagination is <<>> when
\* the body has none; error is the name of the error a 500 reports
Reply(code, message, data, error) ==
    [code |-> code, message |-> message, data |-> data, pagination |-> <<>>,
     error |-> error, step |-> ""]

StoreFault == "MongoNetworkError"

(* --------------------------- request bookkeeping ----------------------- *)
Snapshot == [users |-> users, jobs |-> jobs, succeeded |-> succeeded, contacts |-> contacts]
Summary(r) ==
    [kind |-> r.kind, clerkUserId |-> r.clerkUserId, jobId |-> r.jobId,
     code |-> r.resp.code, error |-> r.resp.error]

\* a request arrives and takes the first free slot p, with locals r
Begin(p, r) ==
    /\ At(p, "idle")
    /\ \A q \in Procs : q < p => req[q].pc # "idle"
    /\ started < MaxRequests
    /\ started' = started + 1
    /\ req' = [q \in Procs |->
                 IF q = p
                 THEN IF \E o \in Procs : InFlight(o)
                      THEN LET o == CHOOSE o \in Procs : InFlight(o)
                           IN  [r EXCEPT !.base = req[o].base, !.peer = Summary(req[o]),
                                         !.burst = req[o].burst + 1,
                                         !.overlaps = {req[o].kind}]
                      ELSE [r EXCEPT !.base = Snapshot, !.burst = 1]
                 ELSE IF InFlight(q)
                      THEN [req[q] EXCEPT !.peer = Summary(r), !.burst = @ + 1,
                                          !.overlaps = @ \cup {r.kind}]
                      ELSE req[q]]

\* the handler in slot p ends with response r: its locals are gone, and
\* the request it overlaps sees how it ended
Respond(p, r) ==
    req' = [q \in Procs |->
              IF q = p
              THEN [req[p] EXCEPT !.pc = "done", !.user = <<>>,
                                  !.contact = <<>>, !.tally = <<>>,
                                  !.resp = [r EXCEPT !.step = req[p].pc]]
              ELSE IF InFlight(q)
                   THEN [req[q] EXCEPT !.peer.code = r.code, !.peer.error = r.error]
                   ELSE req[q]]

\* the response has been read
Finish(p) ==
    /\ req[p].pc = "done"
    /\ req' = [req EXCEPT ![p] = Idle]
    /\ UNCHANGED <<users, jobs, now, nextOid, started, faults, succeeded, contacts>>

\* new Date(): the clock is read, and it never runs backwards
ClockReadings == {t \in now..(now + 1) : t <= MaxClock}

(* ------------------------- POST /api/applications ---------------------- *)
\* a catch block with no case for CastError
SubmitCatchUnclassified(errorName) ==
    Reply(500, "Error submitting application", <<>>, errorName)

\* the catch block of the handler
SubmitCatch(errorName) ==
    IF errorName = "CastError"
    THEN Reply(400, "Invalid job ID", <<>>, "")
    ELSE Reply(500, "Error submitting application", <<>>, errorName)

\* the request arrives; lines 10-18 run before the first await
StartSubmit(p) ==
    \E clerkUserId \in Identities \cup {Empty}, jobId \in JobRefs \cup {Empty} :
        /\ Begin(p, [Idle EXCEPT
               !.kind = "submit", !.clerkUserId = clerkUserId, !.jobId = jobId,
               !.pc = IF clerkUserId = Empty \/ jobId = Empty THEN "done" ELSE "findJob",
               !.resp = IF clerkUserId = Empty \/ jobId = Empty
                        THEN [Reply(400, "User ID and Job ID are required", <<>>, "")
                                EXCEPT !.step = "validate"]
                        ELSE NoResp])
        /\ UNCHANGED <<users, jobs, now, nextOid, faults, succeeded, contacts>>

\* a lookup whose result is not tested
FindJobOutcomeUnchecked(js, jobId) ==
    IF ~IsValidObjectIdString(jobId) THEN "CastError" ELSE "Found"

\* Job.findById(jobId) and the test of its result
FindJobOutcome(js, jobId) ==
    IF ~IsValidObjectIdString(jobId) THEN "CastError"
    ELSE IF CastObjectId(jobId) \notin DOMAIN js THEN "NotFound"
    ELSE "Found"

\* const job = await Job.findById(jobId); if (!job) 404
FindJob(p) ==
    /\ At(p, "findJob")
    /\ \/ /\ LET outcome == FindJobOutcome(jobs, req[p].jobId) 
             IN  IF outcome = "CastError" THEN Respond(p, SubmitCatch("CastError"))
                 ELSE IF outcome = "NotFound"
                      THEN Respond(p, Reply(404, "Job not found", <<>>, ""))
                      ELSE req' = [req EXCEPT ![p].pc = "findUser"]
          /\ UNCHANGED faults
       \/ /\ Respond(p, SubmitCatch(StoreFault))
          /\ faults' = faults \cup {"read"}
    /\ UNCHANGED <<users, jobs, now, nextOid, started, succeeded, contacts>>

\* the duplicate check and the push, lines 45-65: synchronous, on the
\* handler's copy of the user
CheckAndPush(p, user) ==
    IF ExistingApplication(user, req[p].jobId) # {}
    THEN /\ Respond(p, Reply(400, "You have already applied for this job", <<>>, ""))
         /\ UNCHANGED <<now, nextOid>>
    ELSE \E t \in ClockReadings :
            /\ req' = [req EXCEPT
                   ![p].pc = "saveApp",
                   ![p].user = <<[user EXCEPT !.applications =
                       Append(@, NewApplication(NewObjectId(nextOid), req[p].jobId, t))]>>]
            /\ now' = t
            /\ nextOid' = nextOid + 1

\* let user = await User.findOne({ clerkUserId }), lines 30-40 and 45-65
FindUser(p) ==
    /\ At(p, "findUser")
    /\ \/ /\ LET found == FindOne(users, UserIndexByClerkId(users, req[p].clerkUserId))
             IN  IF found = <<>>
                 THEN /\ req' = [req EXCEPT
                            ![p].pc = "saveNew",
                            ![p].user = <<NewUser(NewObjectId(nextOid), req[p].clerkUserId)>>]
                      /\ nextOid' = nextOid + 1
                      /\ UNCHANGED now
                 ELSE CheckAndPush(p, found[1])
          /\ UNCHANGED faults
       \/ /\ Respond(p, SubmitCatch(StoreFault))
          /\ faults' = faults \cup {"read"}
          /\ UNCHANGED <<now, nextOid>>
    /\ UNCHANGED <<users, jobs, started, succeeded, contacts>>

\* await user.save() of the auto-created user (line 41), then lines 45-65
SaveNew(p) ==
    /\ At(p, "saveNew")
    /\ \/ IF DuplicateKey(users, req[p].user[1])
          THEN /\ Respond(p, SubmitCatch("E11000"))
               /\ UNCHANGED <<users, now, nextOid, faults>>
          ELSE /\ users' = Append(users, req[p].user[1])
               /\ CheckAndPush(p, req[p].user[1])
               /\ UNCHANGED faults
       \/ /\ Respond(p, SubmitCatch(StoreFault))
          /\ faults' = faults \cup {"write"}
          /\ UNCHANGED <<users, now, nextOid>>
    /\ UNCHANGED <<jobs, started, succeeded, contacts>>

\* await user.save() of the pushed application (line 67)
SaveApp(p) ==
    /\ At(p, "saveApp")
    /\ \/ /\ users' = PushApplication(users, req[p].user[1]._id,
                                      Last(req[p].user[1].applications))
          /\ req' = [req EXCEPT ![p].pc = "incJob", ![p].user[1].__v = @ + 1]
          /\ UNCHANGED faults
       \/ /\ Respond(p, SubmitCatch(StoreFault))
          /\ faults' = faults \cup {"write"}
          /\ UNCHANGED users
    /\ UNCHANGED <<jobs, now, nextOid, started, succeeded, contacts>>

\* await Job.findByIdAndUpdate(jobId, { $inc: { applicationCount: 1 } })
IncJob(p) ==
    /\ At(p, "incJob")
    /\ \/ /\ jobs' = IncApplicationCount(jobs, req[p].jobId)
          /\ req' = [req EXCEPT ![p].pc = "reread"]
          /\ UNCHANGED faults
       \/ /\ Respond(p, SubmitCatch(StoreFault))
          /\ faults' = faults \cup {"write"}
          /\ UNCHANGED jobs
    /\ UNCHANGED <<users, now, nextOid, started, succeeded, contacts>>

\* the application the response carries (lines 75-76): the last one of the
\* user as re-read from the store
NewApplicationOf(us, js, id) ==
    LET apps == FindOne(us, UserIndexById(us, id))[1].applications
    IN  IF apps = <<>> THEN <<>> ELSE <<Populate(Last(apps), js)>>

\* await User.findById(user._id).populate(...); res.status(201)
Reread(p) ==
    /\ At(p, "reread")
    /\ \/ /\ Respond(p, Reply(201, "Application submitted successfully!",
                              NewApplicationOf(users, jobs, req[p].user[1]._id), ""))
          /\ succeeded' = succeeded \cup {<<req[p].clerkUserId, CastObjectId(req[p].jobId)>>}
          /\ UNCHANGED faults
       \/ /\ Respond(p, SubmitCatch(StoreFault))
          /\ faults' = faults \cup {"read"}
          /\ UNCHANGED succeeded
    /\ UNCHANGED <<users, jobs, now, nextOid, started, contacts>>

(* ------------------ PUT /api/applications/:applicationId/status -------- *)
\* identities a status update can carry
UpdateIdentities == {IdUserA, IdUserB}

\* the catch block of the handler
UpdateCatch(errorName) == Reply(500, "Error updating application status", <<>>, errorName)

\* the request arrives; lines 222-230 run before the first await
StartUpdate(p) ==
    \E applicationId \in AppIdInputs, status \in StatusInputs \cup {""},
       clerkUserId \in UpdateIdentities \cup {Empty} :
        /\ Begin(p, [Idle EXCEPT
               !.kind = "update", !.clerkUserId = clerkUserId,
               !.applicationId = applicationId, !.status = status,
               !.pc = IF status = "" \/ clerkUserId = Empty THEN "done" ELSE "findOwner",
               !.resp = IF status = "" \/ clerkUserId = Empty
                        THEN [Reply(400, "Status and User ID are required", <<>>, "")
                                EXCEPT !.step = "validate"]
                        ELSE NoResp])
        /\ UNCHANGED <<users, jobs, now, nextOid, faults, succeeded, contacts>>

\* User.findOne({ 'applications._id': applicationId, clerkUserId })
OwnerIndex(us, clerkUserId, appOid) ==
    {i \in 1..Len(us) :
        /\ us[i].clerkUserId = clerkUserId
        /\ \E k \in 1..Len(us[i].applications) : us[i].applications[k]._id = appOid}

\* user.applications.id(applicationId): the position of the subdocument
AppIndex(user, appOid) ==
    CHOOSE k \in 1..Len(user.applications) : user.applications[k]._id = appOid

\* const user = await User.findOne(...); application.status = status
FindOwner(p) ==
    /\ At(p, "findOwner")
    /\ \/ /\ IF ~IsValidObjectIdString(req[p].applicationId)
             THEN Respond(p, UpdateCatch("CastError"))
             ELSE LET appOid == CastObjectId(req[p].applicationId)
                      found == FindOne(users, OwnerIndex(users, req[p].clerkUserId, appOid))
                  IN  IF found = <<>>
                      THEN Respond(p, Reply(404, "Application not found", <<>>, ""))
                      ELSE LET k == AppIndex(found[1], appOid)
                           IN  req' = [req EXCEPT
                                  ![p].pc = "saveStatus",
                                  ![p].dirty = (found[1].applications[k].status # req[p].status),
                                  ![p].user = <<[found[1] EXCEPT
                                      !.applications[k].status = req[p].status]>>]
          /\ UNCHANGED faults
       \/ /\ Respond(p, UpdateCatch(StoreFault))
          /\ faults' = faults \cup {"read"}
    /\ UNCHANGED <<users, jobs, now, nextOid, started, succeeded, contacts>>

\* a save that sets the status of every application of the document
SetStatusOfAll(us, id, k, status) ==
    [i \in 1..Len(us) |->
        IF us[i]._id = id
        THEN [us[i] EXCEPT !.applications =
                 [n \in 1..Len(@) |-> [@[n] EXCEPT !.status = status]]]
        ELSE us[i]]

\* save() of a changed subdocument field: $set of applications.k.status on
\* the stored document with this _id and this __v
SetStatus(us, id, k, status) ==
    [i \in 1..Len(us) |->
        IF us[i]._id = id THEN [us[i] EXCEPT !.applications[k].status = status] ELSE us[i]]

\* the stored document no longer has the __v the handler read
VersionConflict(us, user) == \A i \in 1..Len(us) : us[i]._id = user._id => us[i].__v # user.__v

\* await user.save(); res.json(...)
SaveStatus(p) ==
    LET user == req[p].user[1]
        k == AppIndex(user, CastObjectId(req[p].applicationId))
        ok == Reply(200, "Application status updated successfully",
                    <<user.applications[k]>>, "")
    IN  /\ At(p, "saveStatus")
        /\ \/ IF ~req[p].dirty
              THEN Respond(p, ok) /\ UNCHANGED <<users, faults>>
              ELSE IF req[p].status \notin StatusEnum
              THEN Respond(p, UpdateCatch("ValidationError")) /\ UNCHANGED <<users, faults>>
              ELSE IF VersionConflict(users, user)
              THEN Respond(p, UpdateCatch("VersionError")) /\ UNCHANGED <<users, faults>>
              ELSE /\ users' = SetStatus(users, user._id, k, req[p].status)
                   /\ Respond(p, ok)
                   /\ UNCHANGED faults
           \/ /\ req[p].dirty /\ req[p].status \in StatusEnum
              /\ Respond(p, UpdateCatch(StoreFault))
              /\ faults' = faults \cup {"write"}
              /\ UNCHANGED users
        /\ UNCHANGED <<jobs, now, nextOid, started, succeeded, contacts>>

(* ------------------ GET /api/applications/user/:clerkUserId ------------ *)
Min(a, b) == IF a < b THEN a ELSE b
\* Array.prototype.slice(a, b) for 0 <= a
Slice(s, a, b) == SubSeq(s, a + 1, Min(b, Len(s)))
\* Math.ceil(n / d) for n >= 0, d >= 1
CeilDiv(n, d) == (n + d - 1) \div d

\* a sort that leaves the stored order
SortKeepOrder(s) == s

\* Array.prototype.sort((a, b) => new Date(b.appliedAt) - new Date(a.appliedAt)):
\* descending, and stable
InsertDesc(sorted, x) ==
    LET n == Cardinality({i \in 1..Len(sorted) : sorted[i].appliedAt >= x.appliedAt})
    IN  SubSeq(sorted, 1, n) \o <<x>> \o SubSeq(sorted, n + 1, Len(sorted))
RECURSIVE SortByAppliedAtDesc(_)
SortByAppliedAtDesc(s) ==
    IF s = <<>> THEN <<>>
    ELSE InsertDesc(SortByAppliedAtDesc(SubSeq(s, 1, Len(s) - 1)), s[Len(s)])

\* the request arrives (lines 105-106)
StartList(p) ==
    \E clerkUserId \in Identities, page \in PageInputs, limit \in LimitInputs :
        /\ Begin(p, [Idle EXCEPT !.kind = "list", !.clerkUserId = clerkUserId,
                                 !.page = page, !.limit = limit, !.pc = "listFind"])
        /\ UNCHANGED <<users, jobs, now, nextOid, faults, succeeded, contacts>>

\* the reply of the older route (src/unnamed/part_001, lines 105-110)
ListUnknownReplyNotFound == Reply(404, "User not found", <<>>, "")

\* lines 114-125: no user with this identity
ListUnknownReply ==
    [Reply(200, "", <<>>, "") EXCEPT !.pagination =
        <<[current |-> 1, total |-> 0, count |-> 0, totalApplications |-> 0]>>]

\* the window of the sorted sequence and the pagination block (lines
\* 128-142, and 191-206 of the job route): page and limit are numbers when
\* defaulted and strings when given
Paginate(sorted, page, limit) ==
    LET skip == ((IF page = Absent THEN DefaultPage ELSE ToNumber(page[1])) - 1)
                * (IF limit = Absent THEN DefaultLimit ELSE ToNumber(limit[1]))
        applications ==
            Slice(sorted, skip,
                  skip + (IF limit = Absent THEN DefaultLimit ELSE ParseInt(limit[1])))
    IN  [Reply(200, "", applications, "") EXCEPT !.pagination =
            <<[current |-> IF page = Absent THEN DefaultPage ELSE ParseInt(page[1]),
               total |-> CeilDiv(Len(sorted),
                                 IF limit = Absent THEN DefaultLimit ELSE ToNumber(limit[1])),
               count |-> Len(applications), totalApplications |-> Len(sorted)]>>]

\* lines 127-142
ListReply(user, js, page, limit) ==
    Paginate(SortByAppliedAtDesc(
                 [i \in 1..Len(user.applications) |-> Populate(user.applications[i], js)]),
             page, limit)

\* const user = await User.findOne({ clerkUserId }).populate(...); res.json(...)
ListFind(p) ==
    /\ At(p, "listFind")
    /\ \/ /\ LET found == FindOne(users, UserIndexByClerkId(users, req[p].clerkUserId))
             IN  IF found = <<>>
                 THEN Respond(p, ListUnknownReply)
                 ELSE Respond(p, ListReply(found[1], jobs, req[p].page, req[p].limit))
          /\ UNCHANGED faults
       \/ /\ Respond(p, Reply(500, "Error fetching applications", <<>>, StoreFault))
          /\ faults' = faults \cup {"read"}
    /\ UNCHANGED <<users, jobs, now, nextOid, started, succeeded, contacts>>

(* ------------------ GET /api/applications/job/:jobId ------------------- *)
\* the request arrives (lines 157-158)
StartJobList(p) ==
    \E jobId \in JobRefs, page \in PageInputs, limit \in LimitInputs :
        /\ Begin(p, [Idle EXCEPT !.kind = "jobList", !.jobId = jobId,
                                 !.page = page, !.limit = limit, !.pc = "jobListFindJob"])
        /\ UNCHANGED <<users, jobs, now, nextOid, faults, succeeded, contacts>>

\* the catch block of the handler: no case for CastError
JobListCatch(errorName) == Reply(500, "Error fetching job applications", <<>>, errorName)

\* const job = await Job.findById(jobId); if (!job) 404
JobListFindJob(p) ==
    /\ At(p, "jobListFindJob")
    /\ \/ /\ LET outcome == FindJobOutcome(jobs, req[p].jobId)
             IN  IF outcome = "CastError" THEN Respond(p, JobListCatch("CastError"))
                 ELSE IF outcome = "NotFound"
                      THEN Respond(p, Reply(404, "Job not found", <<>>, ""))
                      ELSE req' = [req EXCEPT ![p].pc = "jobListFind"]
          /\ UNCHANGED faults
       \/ /\ Respond(p, JobListCatch(StoreFault))
          /\ faults' = faults \cup {"read"}
    /\ UNCHANGED <<users, jobs, now, nextOid, started, succeeded, contacts>>

\* User.find({ 'applications.jobId': jobId }): the query value is cast
UsersAppliedTo(us, jobId) ==
    SelectSeq(us, LAMBDA u : CountIn(u.applications, CastObjectId(jobId)) > 0)

\* user.applications.filter(app => app.jobId && app.jobId._id.toString() === jobId)
\*     .map(app => ({ ...app.toObject(), user: {...} }))
ApplicationsOfUserForJob(user, js, jobId) ==
    LET kept == SelectSeq(user.applications,
                          LAMBDA app : /\ app.jobId \in DOMAIN js
                                       /\ ObjectIdToString(js[app.jobId]._id) = jobId)
    IN  [i \in 1..Len(kept) |->
            [_id |-> kept[i]._id, jobId |-> Populate(kept[i], js).jobId,
             appliedAt |-> kept[i].appliedAt, status |-> kept[i].status,
             user |-> [_id |-> user._id, clerkUserId |-> user.clerkUserId,
                       email |-> user.email]]]

\* users.flatMap(...)
RECURSIVE FlatMapApplications(_, _, _)
FlatMapApplications(us, js, jobId) ==
    IF us = <<>> THEN <<>>
    ELSE ApplicationsOfUserForJob(Head(us), js, jobId)
         \o FlatMapApplications(Tail(us), js, jobId)

\* lines 169-207
JobListReply(us, js, jobId, page, limit) ==
    Paginate(SortByAppliedAtDesc(FlatMapApplications(UsersAppliedTo(us, jobId), js, jobId)),
             page, limit)

\* const users = await User.find(...).populate(...); res.json(...)
JobListFind(p) ==
    /\ At(p, "jobListFind")
    /\ \/ /\ Respond(p, JobListReply(users, jobs, req[p].jobId, req[p].page, req[p].limit))
          /\ UNCHANGED faults
       \/ /\ Respond(p, JobListCatch(StoreFault))
          /\ faults' = faults \cup {"read"}
    /\ UNCHANGED <<users, jobs, now, nextOid, started, succeeded, contacts>>

(* ------------------------------ contact -------------------------------- *)
\* contactSchema.email match: /^\S+@\S+\.\S+$/
MatchesEmail(s) ==
    /\ \A i \in 1..Len(s) : s[i] # " "
    /\ \E i \in 2..Len(s) : \E j \in (i + 2)..(Len(s) - 1) : s[i] = "@" /\ s[j] = "."

CategoryEnum == {"general", "support", "feedback", "business", "technical", "career", "other"}

\* the bodies a contact submission can carry; <<>> is a field not given
ValidForm ==
    [name |-> <<"n">>, email |-> <<"A","@","x",".","y">>, subject |-> <<"s">>,
     message |-> <<"m">>, category |-> "", userId |-> IdUserA]
ContactForms ==
    {ValidForm,
     [ValidForm EXCEPT !.userId = Empty, !.category = "support"],
     [ValidForm EXCEPT !.name = Empty],
     [ValidForm EXCEPT !.email = <<"a","@","x">>],
     [ValidForm EXCEPT !.message = <<" ">>],
     [ValidForm EXCEPT !.category = "bogus"]}

\* the Contact documents that exist before the first request
SeedContact(n, status, response) ==
    [_id |-> SeedObjectId(n), name |-> <<"n">>, email |-> <<"a","@","x",".","y">>,
     subject |-> <<"s">>, message |-> <<"m">>, category |-> "general",
     userId |-> IdUserA, status |-> status, priority |-> "medium",
     response |-> response, createdAt |-> 0]
SeedResponse == [message |-> <<"r","0">>, repliedAt |-> 0, repliedBy |-> <<"o","p","s">>]
InitialContacts ==
    {<<>>, <<SeedContact(0, "new", <<>>)>>, <<SeedContact(0, "resolved", <<SeedResponse>>)>>}

\* request inputs of the contact endpoints
ContactIdInputs ==
    {ObjectIdToString(SeedObjectId(0)), ObjectIdToString(NewObjectId(0)), RefNoJob,
     RefMalformed}
ResponseMessages == {Empty, <<"r","1">>, <<"r","2">>}
Repliers == {Empty, <<"a","d","m">>}
ContactPageInputs == {Absent, << <<"2">> >>}
ContactLimitInputs == {Absent, << <<"1">> >>}

\* new Contact({...}): the setters trim the strings and lower-case the
\* email, the defaults fill status and priority
NewContact(oid, form, t) ==
    [_id |-> oid, name |-> Trim(form.name), email |-> NormalizeEmail(form.email),
     subject |-> Trim(form.subject), message |-> Trim(form.message),
     category |-> IF form.category = "" THEN "general" ELSE form.category,
     userId |-> form.userId, status |-> "new", priority |-> "medium",
     response |-> <<>>, createdAt |-> t]

\* the schema's validators, run by save()
ContactValid(doc) ==
    /\ doc.name # <<>> /\ doc.subject # <<>> /\ doc.message # <<>>
    /\ doc.email # <<>> /\ MatchesEmail(doc.email)
    /\ doc.category \in CategoryEnum

\* POST /api/contact: the request arrives; validation of lines 13-18
StartContact(p) ==
    \E form \in ContactForms :
        LET missing == form.name = Empty \/ form.email = Empty
                       \/ form.subject = Empty \/ form.message = Empty
        IN  /\ Begin(p, [Idle EXCEPT
                   !.kind = "contact", !.form = <<form>>,
                   !.pc = IF missing THEN "done" ELSE "saveContact",
                   !.resp = IF missing
                            THEN [Reply(400, "All required fields must be provided", <<>>, "")
                                    EXCEPT !.step = "validate"]
                            ELSE NoResp])
            /\ UNCHANGED <<users, jobs, now, nextOid, faults, succeeded, contacts>>

\* const contact = new Contact({...}); await contact.save()
SaveContact(p) ==
    /\ At(p, "saveContact")
    /\ \/ \E t \in ClockReadings :
            LET doc == NewContact(NewObjectId(nextOid), req[p].form[1], t)
            IN  /\ nextOid' = nextOid + 1
                /\ now' = t
                /\ IF ContactValid(doc)
                   THEN /\ contacts' = Append(contacts, doc)
                        /\ req' = [req EXCEPT ![p].pc = "mailConfirmation",
                                              ![p].contact = <<doc>>]
                   ELSE /\ Respond(p, Reply(400, "Validation error", <<>>, "ValidationError"))
                        /\ UNCHANGED contacts
                /\ UNCHANGED faults
       \/ /\ Respond(p, Reply(500, "Error submitting contact form", <<>>, StoreFault))
          /\ faults' = faults \cup {"write"}
          /\ UNCHANGED <<now, nextOid, contacts>>
    /\ UNCHANGED <<users, jobs, started, succeeded>>

\* await sendConfirmationEmail(contact) (it swallows its errors); 201
MailConfirmation(p) ==
    /\ At(p, "mailConfirmation")
    /\ Respond(p, Reply(201, "Thank you for contacting us! We'll get back to you soon.",
                        <<[id |-> req[p].contact[1]._id, name |-> req[p].contact[1].name,
                           email |-> req[p].contact[1].email,
                           subject |-> req[p].contact[1].subject]>>, ""))
    /\ UNCHANGED <<users, jobs, now, nextOid, started, faults, succeeded, contacts>>

\* Contact.countDocuments({ field: value }):
\* the documents whose field has the value
CountDocuments(cs, field, value) == Cardinality({i \in 1..Len(cs) : cs[i][field] = value})
\* Contact.aggregate([{ $group: { _id: '$field', count: { $sum: 1 } } }, { $sort }]):
\* the groups (the order of groups of equal count is not determined)
GroupCounts(cs, field) ==
    {[_id |-> v, count |-> CountDocuments(cs, field, v)] :
        v \in {cs[i][field] : i \in 1..Len(cs)}}

StatsCatch == Reply(500, "Error fetching contact statistics", <<>>, StoreFault)

\* GET /api/contact/stats: the request arrives
StartStats(p) ==
    /\ Begin(p, [Idle EXCEPT !.kind = "stats", !.pc = "statsTotal"])
    /\ UNCHANGED <<users, jobs, now, nextOid, faults, succeeded, contacts>>

\* const totalContacts = await Contact.countDocuments()
StatsTotal(p) ==
    /\ At(p, "statsTotal")
    /\ \/ /\ req' = [req EXCEPT ![p].pc = "statsNew",
                                ![p].tally = Append(@, Len(contacts))]
          /\ UNCHANGED faults
       \/ /\ Respond(p, StatsCatch)
          /\ faults' = faults \cup {"read"}
    /\ UNCHANGED <<users, jobs, now, nextOid, started, succeeded, contacts>>

\* const newContacts = await Contact.countDocuments({ status: 'new' })
StatsNew(p) ==
    /\ At(p, "statsNew")
    /\ \/ /\ req' = [req EXCEPT ![p].pc = "statsResolved",
                                ![p].tally = Append(@, CountDocuments(contacts, "status", "new"))]
          /\ UNCHANGED faults
       \/ /\ Respond(p, StatsCatch)
          /\ faults' = faults \cup {"read"}
    /\ UNCHANGED <<users, jobs, now, nextOid, started, succeeded, contacts>>

\* const resolvedContacts = await Contact.countDocuments({ status: 'resolved' })
StatsResolved(p) ==
    /\ At(p, "statsResolved")
    /\ \/ /\ req' = [req EXCEPT ![p].pc = "statsCategories",
                                ![p].tally = Append(@, CountDocuments(contacts, "status", "resolved"))]
          /\ UNCHANGED faults
       \/ /\ Respond(p, StatsCatch)
          /\ faults' = faults \cup {"read"}
    /\ UNCHANGED <<users, jobs, now, nextOid, started, succeeded, contacts>>

\* const categoryStats = await Contact.aggregate([...]) (the number of groups is kept)
StatsCategories(p) ==
    /\ At(p, "statsCategories")
    /\ \/ /\ req' = [req EXCEPT ![p].pc = "statsPriorities",
                                ![p].tally = Append(@, Cardinality(GroupCounts(contacts, "category")))]
          /\ UNCHANGED faults
       \/ /\ Respond(p, StatsCatch)
          /\ faults' = faults \cup {"read"}
    /\ UNCHANGED <<users, jobs, now, nextOid, started, succeeded, contacts>>

\* const priorityStats = await Contact.aggregate([...]); res.json(...)
StatsPriorities(p) ==
    /\ At(p, "statsPriorities")
    /\ \/ /\ Respond(p, Reply(200, "",
                 <<[totalContacts |-> req[p].tally[1], newContacts |-> req[p].tally[2],
                    resolvedContacts |-> req[p].tally[3], categories |-> req[p].tally[4],
                    priorities |->
                        Cardinality(GroupCounts(contacts, "priority"))]>>, ""))
          /\ UNCHANGED faults
       \/ /\ Respond(p, StatsCatch)
          /\ faults' = faults \cup {"read"}
    /\ UNCHANGED <<users, jobs, now, nextOid, started, succeeded, contacts>>

\* .sort({ createdAt: -1 }): newest first (contacts created at the same
\* time keep their stored order)
RECURSIVE SortByCreatedAtDesc(_)
SortByCreatedAtDesc(cs) ==
    IF cs = <<>> THEN <<>>
    ELSE LET rest == SortByCreatedAtDesc(SubSeq(cs, 1, Len(cs) - 1))
             x == cs[Len(cs)]
             n == Cardinality({i \in 1..Len(rest) : rest[i].createdAt >= x.createdAt})
         IN  SubSeq(rest, 1, n) \o <<x>> \o SubSeq(rest, n + 1, Len(rest))

ContactListCatch == Reply(500, "Error fetching user contacts", <<>>, StoreFault)

\* GET /api/contact/user/:userId: the request arrives
StartContactList(p) ==
    \E userId \in {IdUserA, IdUserB}, page \in ContactPageInputs, limit \in ContactLimitInputs :
        /\ Begin(p, [Idle EXCEPT !.kind = "contactList", !.clerkUserId = userId,
                                 !.page = page, !.limit = limit, !.pc = "contactFind"])
        /\ UNCHANGED <<users, jobs, now, nextOid, faults, succeeded, contacts>>

\* await Contact.find({ userId }).sort(...).skip(skip).limit(parseInt(limit))
ContactFind(p) ==
    /\ At(p, "contactFind")
    /\ \/ /\ LET mine == SelectSeq(contacts, LAMBDA c : c.userId = req[p].clerkUserId)
                 skip == ((IF req[p].page = Absent THEN DefaultPage
                           ELSE ToNumber(req[p].page[1])) - 1)
                         * (IF req[p].limit = Absent THEN DefaultLimit
                            ELSE ToNumber(req[p].limit[1]))
                 lim == IF req[p].limit = Absent THEN DefaultLimit
                        ELSE ParseInt(req[p].limit[1])
             IN  req' = [req EXCEPT ![p].pc = "contactCount",
                            ![p].tally = Slice(SortByCreatedAtDesc(mine), skip, skip + lim)]
          /\ UNCHANGED faults
       \/ /\ Respond(p, ContactListCatch)
          /\ faults' = faults \cup {"read"}
    /\ UNCHANGED <<users, jobs, now, nextOid, started, succeeded, contacts>>

\* const total = await Contact.countDocuments({ userId }); res.json(...)
ContactCount(p) ==
    /\ At(p, "contactCount")
    /\ \/ /\ LET total == CountDocuments(contacts, "userId", req[p].clerkUserId)
             IN  Respond(p, [Reply(200, "", req[p].tally, "") EXCEPT !.pagination =
                     <<[current |-> IF req[p].page = Absent THEN DefaultPage
                                    ELSE ParseInt(req[p].page[1]),
                        total |-> CeilDiv(total, IF req[p].limit = Absent THEN DefaultLimit
                                                 ELSE ToNumber(req[p].limit[1])),
                        count |-> Len(req[p].tally), totalContacts |-> total]>>])
          /\ UNCHANGED faults
       \/ /\ Respond(p, ContactListCatch)
          /\ faults' = faults \cup {"read"}
    /\ UNCHANGED <<users, jobs, now, nextOid, started, succeeded, contacts>>

ResponseCatch(errorName) == Reply(500, "Error sending response", <<>>, errorName)

\* POST /api/contact/:id/response: the request arrives; lines 160-168
StartResponse(p) ==
    \E id \in ContactIdInputs, message \in ResponseMessages, repliedBy \in Repliers :
        LET missing == message = Empty \/ repliedBy = Empty
        IN  /\ Begin(p, [Idle EXCEPT
                   !.kind = "response", !.contactId = id, !.message = message,
                   !.repliedBy = repliedBy,
                   !.pc = IF missing THEN "done" ELSE "findContact",
                   !.resp = IF missing
                            THEN [Reply(400, "Response message and replier info are required",
                                        <<>>, "") EXCEPT !.step = "validate"]
                            ELSE NoResp])
            /\ UNCHANGED <<users, jobs, now, nextOid, faults, succeeded, contacts>>

\* const contact = await Contact.findById(id); if (!contact) 404
FindContact(p) ==
    /\ At(p, "findContact")
    /\ \/ /\ IF ~IsValidObjectIdString(req[p].contactId)
             THEN Respond(p, ResponseCatch("CastError"))
             ELSE LET found == SelectSeq(contacts,
                                   LAMBDA c : c._id = CastObjectId(req[p].contactId))
                  IN  IF found = <<>>
                      THEN Respond(p, Reply(404, "Contact inquiry not found", <<>>, ""))
                      ELSE req' = [req EXCEPT ![p].pc = "markAsResolved",
                                              ![p].contact = <<found[1]>>]
          /\ UNCHANGED faults
       \/ /\ Respond(p, ResponseCatch(StoreFault))
          /\ faults' = faults \cup {"read"}
    /\ UNCHANGED <<users, jobs, now, nextOid, started, succeeded, contacts>>

\* a resolve that reopens the inquiry
markAsResolvedReopens(contact, responseMessage, repliedBy, t) ==
    [contact EXCEPT
        !.status = IF @ = "resolved" THEN "in_progress" ELSE "resolved",
        !.response = <<[message |-> responseMessage, repliedAt |-> t,
                        repliedBy |-> repliedBy]>>]

\* contactSchema.methods.markAsResolved, up to the save
markAsResolved(contact, responseMessage, repliedBy, t) ==
    [contact EXCEPT
        !.status = "resolved",
        !.response = <<[message |-> responseMessage, repliedAt |-> t,
                        repliedBy |-> repliedBy]>>]

\* this.save(): $set of the paths markAsResolved assigned, on the stored
\* document with this _id
SaveResolved(cs, doc) ==
    [i \in 1..Len(cs) |->
        IF cs[i]._id = doc._id
        THEN [cs[i] EXCEPT !.status = doc.status, !.response = doc.response]
        ELSE cs[i]]

\* await contact.markAsResolved(message, repliedBy)
ResolveContact(p) ==
    /\ At(p, "markAsResolved")
    /\ \/ \E t \in ClockReadings :
            LET doc == markAsResolved(req[p].contact[1], req[p].message, req[p].repliedBy, t)
            IN  /\ contacts' = SaveResolved(contacts, doc)
                /\ req' = [req EXCEPT ![p].pc = "mailResponse", ![p].contact = <<doc>>]
                /\ now' = t
                /\ UNCHANGED faults
       \/ /\ Respond(p, ResponseCatch(StoreFault))
          /\ faults' = faults \cup {"write"}
          /\ UNCHANGED <<now, contacts>>
    /\ UNCHANGED <<users, jobs, nextOid, started, succeeded>>

\* await sendResponseEmail(contact, message) (it swallows its errors); 200
MailResponse(p) ==
    /\ At(p, "mailResponse")
    /\ Respond(p, Reply(200, "Response sent successfully", req[p].contact, ""))
    /\ UNCHANGED <<users, jobs, now, nextOid, started, faults, succeeded, contacts>>

(* ----------------------------- specifications -------------------------- *)
\* submit and update-status requests, up to two in flight at a time
Next ==
    \E p \in Procs :
        \/ StartSubmit(p)
        \/ FindJob(p)
        \/ FindUser(p)
        \/ SaveNew(p)
        \/ SaveApp(p)
        \/ IncJob(p)
        \/ Reread(p)
        \/ StartUpdate(p)
        \/ FindOwner(p)
        \/ SaveStatus(p)
        \/ Finish(p)

Spec == Init /\ [][Next]_vars

\* all requests, sent one after the other: each runs alone
SeqNext ==
    \E p \in {1} :
        \/ StartSubmit(p)
        \/ FindJob(p)
        \/ FindUser(p)
        \/ SaveNew(p)
        \/ SaveApp(p)
        \/ IncJob(p)
        \/ Reread(p)
        \/ StartUpdate(p)
        \/ FindOwner(p)
        \/ SaveStatus(p)
        \/ StartList(p)
        \/ ListFind(p)
        \/ Finish(p)

SeqSpec == Init /\ [][SeqNext]_vars

\* the two listings over every small stored sequence of applications: user_a
\* holds up to MaxApps applications in any stored order, to either job and
\* with any applied-at up to MaxTime, or the fifteen of the pagination
\* example; user_b holds one application
StoredApplication(n, jobId, t) ==
    [_id |-> SeedObjectId(n), jobId |-> jobId, appliedAt |-> t, status |-> "applied"]
StoredSequences ==
    UNION {[1..n -> JobIds \X (0..MaxTime)] : n \in 0..MaxApps}
FifteenApplications ==
    [i \in 1..ExampleApps |-> StoredApplication(2 + i, Job1, i % (MaxTime + 1))]
ListStores ==
    {<<SeedUser(0, IdUserA, <<"A","@","x">>,
                [i \in 1..Len(f) |-> StoredApplication(2 + i, f[i][1], f[i][2])]),
       SeedUser(1, IdUserB, <<"b","@","x">>, <<StoredApplication(2, Job1, 1)>>)>> :
        f \in StoredSequences}
    \cup {<<SeedUser(0, IdUserA, <<"A","@","x">>, FifteenApplications)>>}

ListInit ==
    /\ users \in ListStores
    /\ jobs = [j \in JobIds |-> [_id |-> j, applicationCount |-> Applications(users, j)]]
    /\ req = [p \in Procs |-> Idle]
    /\ now = MaxClock
    /\ nextOid = 0
    /\ started = MaxRequests - 1
    /\ faults = {}
    /\ succeeded = {}
    /\ contacts = <<>>

ListNext ==
    \E p \in {1} :
        \/ StartList(p)
        \/ ListFind(p)
        \/ StartJobList(p)
        \/ JobListFindJob(p)
        \/ JobListFind(p)
        \/ Finish(p)

ListSpec == ListInit /\ [][ListNext]_vars

\* the contact endpoints, up to two requests in flight at a time
ContactInit ==
    /\ users = <<>>
    /\ jobs = [j \in JobIds |-> [_id |-> j, applicationCount |-> 0]]
    /\ req = [p \in Procs |-> Idle]
    /\ now = 0
    /\ nextOid = 0
    /\ started = 0
    /\ faults = {}
    /\ succeeded = {}
    /\ contacts \in InitialContacts

ContactNext ==
    \E p \in Procs :
        \/ StartContact(p)
        \/ SaveContact(p)
        \/ MailConfirmation(p)
        \/ StartStats(p)
        \/ StatsTotal(p)
        \/ StatsNew(p)
        \/ StatsResolved(p)
        \/ StatsCategories(p)
        \/ StatsPriorities(p)
        \/ StartContactList(p)
        \/ ContactFind(p)
        \/ ContactCount(p)
        \/ StartResponse(p)
        \/ FindContact(p)
        \/ ResolveContact(p)
        \/ MailResponse(p)
        \/ Finish(p)

ContactSpec == ContactInit /\ [][ContactNext]_vars

(* ------------------------------- properties ---------------------------- *)
Done(p) == req[p].pc = "done"
\* the request met a store fault
Faulted(r) == r.resp.error = StoreFault
\* the User document of an identity, <<>> when there is none
UserOf(us, clerkUserId) == FindOne(us, UserIndexByClerkId(us, clerkUserId))
\* the applications of an identity, <<>> when it has no User document
AppsOf(us, clerkUserId) ==
    IF UserOf(us, clerkUserId) = <<>> THEN <<>> ELSE UserOf(us, clerkUserId)[1].applications
\* a submit request that passed validation and whose reference names a job
SubmitsToJob(r) ==
    /\ r.kind = "submit" /\ r.clerkUserId # Empty /\ r.jobId # Empty
    /\ IsValidObjectIdString(r.jobId) /\ CastObjectId(r.jobId) \in DOMAIN jobs
Quiescent == \A p \in Procs : req[p].kind = "submit" => ~InFlight(p)

\* C1: a submit (U, J) for an existing job J by an identity U with no
\* application referencing J, run alone, no store fault having occurred, answers
\* 201, leaves exactly one more application in U's sequence (the new one,
\* referencing J, status applied) and J's applicationCount one higher.
C1_SubmitAddsOneApplication ==
    \A p \in Procs :
        (/\ Done(p) /\ SubmitsToJob(req[p]) /\ req[p].burst = 1 /\ faults = {}
         /\ CountIn(AppsOf(req[p].base.users, req[p].clerkUserId),
                    CastObjectId(req[p].jobId)) = 0)
        => LET J == CastObjectId(req[p].jobId)
               before == AppsOf(req[p].base.users, req[p].clerkUserId)
               after == AppsOf(users, req[p].clerkUserId)
           IN  /\ req[p].resp.code = 201
               /\ Len(after) = Len(before) + 1
               /\ SubSeq(after, 1, Len(before)) = before
               /\ Last(after).jobId = J
               /\ Last(after).status = "applied"
               /\ jobs[J].applicationCount = req[p].base.jobs[J].applicationCount + 1

\* C2: with requests sent one after the other, once a submit for (U, J) has
\* answered 201, every later submit for the same (U, J) is rejected with
\* 400 "already applied" and changes neither U's applications nor any
\* applicationCount.
C2_ResubmitRejected ==
    \A p \in Procs :
        (/\ Done(p) /\ SubmitsToJob(req[p]) /\ req[p].burst = 1 /\ faults = {}
         /\ <<req[p].clerkUserId, CastObjectId(req[p].jobId)>> \in req[p].base.succeeded)
        => /\ req[p].resp.code = 400
           /\ req[p].resp.message = "You have already applied for this job"
           /\ users = req[p].base.users
           /\ jobs = req[p].base.jobs

\* C3: in every reachable state every User document holds at most one
\* application per job.
C3_AtMostOnePerJob ==
    \A i \in 1..Len(users) : \A j \in JobIds : CountIn(users[i].applications, j) <= 1

\* C4: a submit for an existing job by an identity with no User document, run
\* alone, creates exactly one User document with that identity, the
\* placeholder email derived from it and userType job_seeker, appends the
\* application to it and answers 201.
C4_AutoProvision ==
    \A p \in Procs :
        (/\ Done(p) /\ SubmitsToJob(req[p]) /\ req[p].burst = 1 /\ faults = {}
         /\ UserOf(req[p].base.users, req[p].clerkUserId) = <<>>)
        => /\ req[p].resp.code = 201
           /\ Len(users) = Len(req[p].base.users) + 1
           /\ SubSeq(users, 1, Len(req[p].base.users)) = req[p].base.users
           /\ Last(users).clerkUserId = req[p].clerkUserId
           /\ Last(users).email = PlaceholderEmail(req[p].clerkUserId)
           /\ Last(users).userType = "job_seeker"
           /\ Len(Last(users).applications) = 1
           /\ Last(users).applications[1].jobId = CastObjectId(req[p].jobId)

\* C5: no submit ends in failure at the user-creation step, in any
\* interleaving, unless the store itself is at fault.
C5_ProvisioningNeverFails ==
    \A p \in Procs :
        (Done(p) /\ req[p].kind = "submit" /\ req[p].resp.step = "saveNew")
        => Faulted(req[p])

\* a submit that passed validation and whose well-formed reference names no job
SubmitsToNoJob(r) ==
    /\ r.kind = "submit" /\ r.clerkUserId # Empty /\ r.jobId # Empty
    /\ IsValidObjectIdString(r.jobId) /\ CastObjectId(r.jobId) \notin DOMAIN jobs

\* C6: a submit whose well-formed job reference names no job answers 404
\* (unless the store is at fault), and no step of it changes any User
\* document or any applicationCount, whatever runs beside it.
C6_NoJobNoMutation ==
    [][\A p \in Procs :
        ((SubmitsToNoJob(req[p]) \/ SubmitsToNoJob(req'[p])) /\ req'[p].pc # req[p].pc)
        => /\ users' = users
           /\ jobs' = jobs
           /\ (req'[p].pc = "done" /\ ~Faulted(req'[p])) => req'[p].resp.code = 404]_vars

C6_Witness ==
    \E p \in Procs :
        /\ Done(p) /\ SubmitsToNoJob(req[p]) /\ req[p].resp.code = 404
        /\ UserOf(users, req[p].clerkUserId) = <<>>

\* C7: when the applicationCount increment fails after the application has
\* been appended, the submit still answers with success.
C7_CounterFailureStillSuccess ==
    \A p \in Procs :
        (Done(p) /\ req[p].kind = "submit" /\ req[p].resp.step = "incJob")
        => req[p].resp.code = 201

\* C8: whenever no submit is in flight and no store write has been lost,
\* every job's applicationCount is the number of applications, across all
\* users, that reference it.
C8_CounterMatches ==
    (Quiescent /\ "write" \notin faults)
    => \A j \in DOMAIN jobs : jobs[j].applicationCount = Applications(users, j)

C8_Witness ==
    /\ Quiescent /\ "write" \notin faults
    /\ \E i \in 1..Len(users) : \E j \in JobIds : CountIn(users[i].applications, j) = 2
    /\ \E p \in Procs :
        /\ Done(p) /\ req[p].kind = "submit" /\ req[p].resp.code = 201
        /\ req[p].burst = 2 /\ req[p].peer.kind = "submit" /\ req[p].peer.code = 201

\* two submits for the same job by two different users overlapped (and
\* nothing else did), neither user had applied to the job, neither request
\* met a store fault, and both have answered; p is the second to answer
TwoUsersSameJob(p) ==
    /\ Done(p) /\ SubmitsToJob(req[p]) /\ req[p].burst = 2
    /\ req[p].peer.kind = "submit" /\ req[p].peer.code # 0
    /\ req[p].peer.clerkUserId \notin {Empty, req[p].clerkUserId}
    /\ IsValidObjectIdString(req[p].peer.jobId)
    /\ CastObjectId(req[p].peer.jobId) = CastObjectId(req[p].jobId)
    /\ ~Faulted(req[p]) /\ req[p].peer.error # StoreFault
    /\ \A u \in {req[p].clerkUserId, req[p].peer.clerkUserId} :
        /\ UserOf(req[p].base.users, u) # <<>>
        /\ CountIn(AppsOf(req[p].base.users, u), CastObjectId(req[p].jobId)) = 0

PageOf(r) == IF r.page = Absent THEN DefaultPage ELSE ToNumber(r.page[1])
SizeOf(r) == IF r.limit = Absent THEN DefaultLimit ELSE ToNumber(r.limit[1])
Max(a, b) == IF a > b THEN a ELSE b
\* the identifiers of a sequence of documents
Ids(docs) == [i \in 1..Len(docs) |-> docs[i]._id]
\* the response r holds the window of page PageOf(q), size SizeOf(q), of the
\* sequence sorted, with the pagination block that goes with it
IsWindow(r, q, sorted) ==
    LET N == Len(sorted)
        first == (PageOf(q) - 1) * SizeOf(q)
    IN  /\ r.code = 200
        /\ Ids(r.data) = Ids(SubSeq(sorted, first + 1, Min(first + SizeOf(q), N)))
        /\ r.pagination =
             <<[current |-> PageOf(q), total |-> CeilDiv(N, SizeOf(q)),
                count |-> Min(SizeOf(q), Max(0, N - first)), totalApplications |-> N]>>
\* the applications that reference job j, across all users
RECURSIVE ApplicationsFor(_, _)
ApplicationsFor(us, j) ==
    IF us = <<>> THEN <<>>
    ELSE SelectSeq(Head(us).applications, LAMBDA app : app.jobId = j)
         \o ApplicationsFor(Tail(us), j)
\* a listing request for an existing user / an existing job that met no store fault
ListsUser(p) ==
    /\ Done(p) /\ req[p].kind = "list" /\ ~Faulted(req[p])
    /\ UserOf(users, req[p].clerkUserId) # <<>>
ListsJob(p) ==
    /\ Done(p) /\ req[p].kind = "jobList" /\ ~Faulted(req[p])
    /\ IsValidObjectIdString(req[p].jobId) /\ CastObjectId(req[p].jobId) \in DOMAIN jobs

\* C11: a user listing for an existing user with N applications, page p >= 1
\* and size s >= 1, answers the elements (p-1)*s .. p*s - 1 of the sorted
\* sequence, count = min(s, max(0, N - (p-1)*s)), current = p,
\* total = ceil(N/s), totalApplications = N; and a job listing answers the
\* same window of the job's applications.
C11_Windowing ==
    \A p \in Procs :
        /\ ListsUser(p)
            => IsWindow(req[p].resp, req[p],
                        SortByAppliedAtDesc(AppsOf(users, req[p].clerkUserId)))
        /\ ListsJob(p)
            => IsWindow(req[p].resp, req[p],
                        SortByAppliedAtDesc(
                            ApplicationsFor(users, CastObjectId(req[p].jobId))))

\* the decimal spelling of a page number below 100
FormatInt(n) ==
    IF n < 10 THEN <<DecDigits[n + 1]>>
    ELSE <<DecDigits[(n \div 10) + 1], DecDigits[(n % 10) + 1]>>
\* what the user listing answers for page k, with the page size of request q
PageData(user, q, k) == ListReply(user, jobs, <<FormatInt(k)>>, q.limit).data
\* pages 1..k of the listing, one after the other
RECURSIVE PagesUpTo(_, _, _)
PagesUpTo(user, q, k) ==
    IF k = 0 THEN <<>> ELSE PagesUpTo(user, q, k - 1) \o PageData(user, q, k)
NonIncreasing(docs) ==
    \A i \in 1..Len(docs) : \A j \in i..Len(docs) : docs[i].appliedAt >= docs[j].appliedAt

\* C12: whatever the stored order of a user's applications, the pages of
\* the user listing, taken in order, are in non-increasing applied-at order
\* and contain exactly the user's applications, each once; the response is
\* the page it was asked for.
C12_SortedPages ==
    \A p \in Procs :
        ListsUser(p)
        => LET user == UserOf(users, req[p].clerkUserId)[1]
               total == CeilDiv(Len(user.applications), SizeOf(req[p]))
               all == PagesUpTo(user, req[p], total)
           IN  /\ NonIncreasing(all)
               /\ Len(all) = Len(user.applications)
               /\ \A i \in 1..Len(user.applications) :
                    Cardinality({k \in 1..Len(all) :
                                    all[k]._id = user.applications[i]._id}) = 1
               /\ req[p].resp.data = PageData(user, req[p], PageOf(req[p]))
               /\ req[p].resp.pagination[1].total = total

\* a second page was listed of three applications stored oldest first
C12_Witness ==
    \E p \in Procs :
        /\ ListsUser(p) /\ PageOf(req[p]) = 2 /\ req[p].resp.data # <<>>
        /\ LET apps == AppsOf(users, req[p].clerkUserId)
           IN  Len(apps) = 3 /\ apps[1].appliedAt < apps[2].appliedAt
               /\ apps[2].appliedAt < apps[3].appliedAt

\* some User with this identity owns a subdocument with this identifier
Owns(us, clerkUserId, applicationId) ==
    /\ IsValidObjectIdString(applicationId)
    /\ OwnerIndex(us, clerkUserId, CastObjectId(applicationId)) # {}
\* the update request in slot p, which passed validation, is answered in
\* this step without a store fault
UpdateAnswered(p) ==
    /\ req[p].kind = "update" /\ InFlight(p) /\ req'[p].pc = "done"
    /\ req[p].status # "" /\ req[p].clerkUserId # Empty
    /\ ~Faulted(req'[p])

\* C13: an update-status request whose identity owns no subdocument with
\* the given identifier is answered 404 and leaves every User document and
\* every applicationCount as they were.
C13_NotOwnedNotFound ==
    [][\A p \in Procs :
        (UpdateAnswered(p) /\ ~Owns(users, req[p].clerkUserId, req[p].applicationId))
        => /\ req'[p].resp.code = 404
           /\ users' = users
           /\ jobs' = jobs]_vars

\* the inquiry is resolved and carries a response
Resolved(c) == c.status = "resolved" /\ c.response # <<>>
\* the stored Contact a response request names, <<>> when there is none
ContactOf(cs, id) ==
    IF IsValidObjectIdString(id)
    THEN SelectSeq(cs, LAMBDA c : c._id = CastObjectId(id))
    ELSE <<>>

\* C14: once a Contact is resolved with a response attached, no step of any
\* contact operation (submit, stats, list-by-user, add-response) gives it
\* another status; an add-response on it that meets no store fault
\* overwrites the stored response with its own message and responder, and
\* is answered with success.
C14_ResolveOneWay ==
    [][/\ \A i \in 1..Len(contacts) :
            Resolved(contacts[i])
            => /\ i <= Len(contacts')
               /\ contacts'[i]._id = contacts[i]._id
               /\ contacts'[i].status = "resolved"
       /\ \A p \in Procs :
            /\ (/\ req[p].pc = "markAsResolved" /\ ~Faulted(req'[p])
                /\ req'[p].pc # "markAsResolved"
                /\ ContactOf(contacts, req[p].contactId) # <<>>
                /\ Resolved(ContactOf(contacts, req[p].contactId)[1]))
               => /\ req'[p].pc = "mailResponse"
                  /\ Resolved(ContactOf(contacts', req[p].contactId)[1])
                  /\ ContactOf(contacts', req[p].contactId)[1].response[1].message
                       = req[p].message
                  /\ ContactOf(contacts', req[p].contactId)[1].response[1].repliedBy
                       = req[p].repliedBy
            /\ (req[p].pc = "mailResponse" /\ req'[p].pc # "mailResponse")
               => req'[p].pc = "done" /\ req'[p].resp.code = 200]_vars

\* an add-response on an inquiry that was already resolved has been answered
\* and the stored response is the new one
C14_Witness ==
    \E p \in Procs :
        /\ Done(p) /\ req[p].kind = "response" /\ req[p].resp.code = 200
        /\ ContactOf(req[p].base.contacts, req[p].contactId) # <<>>
        /\ Resolved(ContactOf(req[p].base.contacts, req[p].contactId)[1])
        /\ ContactOf(contacts, req[p].contactId)[1].response[1].message = req[p].message
        /\ ContactOf(contacts, req[p].contactId)[1].response
            # ContactOf(req[p].base.contacts, req[p].contactId)[1].response

\* a submit that passed validation and whose job reference is no ObjectId
SubmitsMalformed(r) ==
    /\ r.kind = "submit" /\ r.clerkUserId # Empty /\ r.jobId # Empty
    /\ ~IsValidObjectIdString(r.jobId)

\* C15: a submit whose job reference is malformed answers 400 'Invalid job
\* ID' (not the 404 of a job that is not found), unless the store is at
\* fault, and no step of it changes any User document or any
\* applicationCount, whatever runs beside it.
C15_MalformedJobId ==
    [][\A p \in Procs :
        ((SubmitsMalformed(req[p]) \/ SubmitsMalformed(req'[p])) /\ req'[p].pc # req[p].pc)
        => /\ users' = users
           /\ jobs' = jobs
           /\ (req'[p].pc = "done" /\ ~Faulted(req'[p]))
              => /\ req'[p].resp.code = 400
                 /\ req'[p].resp.message = "Invalid job ID"
                 /\ req'[p].resp.message # "Job not found"]_vars

C15_Witness ==
    \E p \in Procs :
        /\ Done(p) /\ SubmitsMalformed(req[p]) /\ req[p].resp.message = "Invalid job ID"
        /\ UserOf(users, req[p].clerkUserId) = <<>>
        /\ users = req[p].base.users /\ jobs = req[p].base.jobs

\* C16: every submit answered 201 carries as its data one application, and
\* that application references the job the request named, in every
\* interleaving of the appends and the re-reads.
C16_ResponseCarriesOwnApplication ==
    \A p \in Procs :
        (Done(p) /\ req[p].kind = "submit" /\ req[p].resp.code = 201)
        => /\ Len(req[p].resp.data) = 1
           /\ req[p].resp.data[1].jobId._id = CastObjectId(req[p].jobId)

\* us2 is us with the status of the application appId of its owner
\* clerkUserId set to status: same users, same applications, every other
\* field as it was
OnlyStatusSet(us, us2, clerkUserId, appId, status) ==
    /\ Len(us2) = Len(us)
    /\ \A i \in 1..Len(us) :
        /\ [us2[i] EXCEPT !.applications = <<>>] = [us[i] EXCEPT !.applications = <<>>]
        /\ Len(us2[i].applications) = Len(us[i].applications)
        /\ \A k \in 1..Len(us[i].applications) :
            IF us[i].clerkUserId = clerkUserId /\ us[i].applications[k]._id = appId
            THEN us2[i].applications[k] = [us[i].applications[k] EXCEPT !.status = status]
            ELSE us2[i].applications[k] = us[i].applications[k]
\* no other status update overlaps the request in slot p
NoOtherUpdate(p) == "update" \notin req[p].overlaps
\* the update request in slot p is answered with success in this step
UpdateSucceeds(p) ==
    req[p].kind = "update" /\ req[p].pc = "saveStatus" /\ req'[p].resp.code = 200

\* C17: the step that answers a status update with success leaves every
\* applicationCount as it was and changes, in the store, at most the status
\* of the application it names, to the status it asks for; when no other
\* status update overlaps it, the store is then exactly as before with that
\* status set.  No step of an update whose status is outside the enum, or
\* that is not answered with success, changes the store; and in every
\* reachable state every application's status is one of the enum.
C17_UpdateFrame ==
    /\ [](\A i \in 1..Len(users) : \A k \in 1..Len(users[i].applications) :
            users[i].applications[k].status \in StatusEnum)
    /\ [][\A p \in Procs :
            (req[p].kind = "update" /\ req'[p].pc # req[p].pc)
            => /\ jobs' = jobs
               /\ IF UpdateSucceeds(p)
                  THEN /\ \/ users' = users
                          \/ OnlyStatusSet(users, users', req[p].clerkUserId,
                                           CastObjectId(req[p].applicationId), req[p].status)
                       /\ NoOtherUpdate(p)
                          => OnlyStatusSet(users, users', req[p].clerkUserId,
                                           CastObjectId(req[p].applicationId), req[p].status)
                       /\ req[p].status \in StatusEnum
                  ELSE users' = users]_vars

\* a status update changed the status of the second application of a user
C17_Witness ==
    \E p \in Procs :
        /\ Done(p) /\ req[p].kind = "update" /\ req[p].resp.code = 200
        /\ users # req[p].base.users
        /\ \E i \in 1..Len(users) :
            /\ Len(users[i].applications) = 2
            /\ users[i].applications[2]._id = CastObjectId(req[p].applicationId)
            /\ users[i].applications[2].status = req[p].status
            /\ users[i].applications[1].status = "applied"

\* C18: in every reachable state, store writes being allowed to fail at any
\* step, no job's applicationCount exceeds the number of applications that
\* reference the job; and no step lowers an applicationCount.
C18_NeverOverCounts ==
    /\ [](\A j \in DOMAIN jobs : jobs[j].applicationCount <= Applications(users, j))
    /\ [][\A j \in DOMAIN jobs :
            jobs'[j].applicationCount >= jobs[j].applicationCount]_vars

\* a counter update was lost after its application was stored, and another
\* application of the same job was counted
C18_Witness ==
    /\ "write" \in faults
    /\ \E j \in DOMAIN jobs :
        /\ jobs[j].applicationCount < Applications(users, j)
        /\ jobs[j].applicationCount >= 1
        /\ \E p \in Procs : /\ Done(p) /\ req[p].kind = "submit" /\ req[p].resp.code = 201
                             /\ req[p].burst = 2 /\ CastObjectId(req[p].jobId) = j
        /\ \A q \in Procs : ~InFlight(q)

====
